---- MODULE Spec2Model ----
(***************************************************************************)
(* geo_assigner: assign a property from one set of GeoJSON features to     *)
(* another.  The model follows the command line entry point (main) and the *)
(* assign engine it calls, one action per statement group, with the        *)
(* strategy hooks as operators on the property mappings of the features.   *)
(*                                                                         *)
(* Geometries are GeoJSON MultiPoint geometries over a small set of points *)
(* (the intersection of two of them is the set of the points they share),  *)
(* or a geometry of a type that shapely.geometry.asShape rejects.  The     *)
(* two collections are separate objects, as load_json returns them.        *)
(***************************************************************************)
EXTENDS Integers, Sequences, FiniteSets, TLC

\* Bounds of the model: the longest source and target collections, and the
\* number of times assign is called on the same collections.
MaxSources == 2
MaxTargets == 2
MaxRuns == 2

\* The property the strategy is bound to (args.property_name), and another
\* property a feature may carry.
PROP == "zone"
OtherProp == "name"

\* --------------------------------------------------------------- values

\* JSON values: a string, or a list of values.
Str(v) == [str |-> v]
List(s) == [list |-> s]

\* The empty property mapping ({} in JSON).
NoProps == [k \in {} |-> Str("")]

\* Element.__getitem__ raises KeyError exactly when the key is absent.
HasKey(props, key) == key \in DOMAIN props

\* Element.__getitem__: self.feature['properties'][key]
Element_getitem(props, key) == props[key]

\* Element.__setitem__: self.feature['properties'][key] = value
Element_setitem(props, key, value) ==
    [k \in (DOMAIN props) \cup {key} |-> IF k = key THEN value ELSE props[k]]

\* Element.__delitem__: del self.feature['properties'][key]
Element_delitem(props, key) ==
    [k \in (DOMAIN props) \ {key} |-> props[k]]

\* ------------------------------------------------------------- geometry

P1 == <<0, 0>>
P2 == <<1, 1>>

\* A GeoJSON geometry: its type and the list of its coordinates.
MultiPoint(pts) == [type |-> "MultiPoint", coordinates |-> pts]
\* A geometry whose type shapely does not know.
Malformed == [type |-> "Circle", coordinates |-> <<>>]

KnownTypes == {"MultiPoint"}

\* shapely.geometry.asShape(feature['geometry']) raises for such a geometry
CanConvert(geometry) == geometry.type \in KnownTypes

\* Element.__init__: the shape of a feature whose geometry converts, the set
\* of the points its coordinates list
asShape(geometry) ==
    { geometry.coordinates[k] : k \in 1..Len(geometry.coordinates) }

\* Element.intersection: self.shape.intersection(element.shape)
Element_intersection(shape, other) == shape \cap other

\* Faulty variant: the test for an empty intersection never skips a source.
is_empty_never(shape) == FALSE

\* intersection.is_empty
is_empty(shape) == shape = {}

Feature(geometry, properties) == [geometry |-> geometry, properties |-> properties]

\* ------------------------------------------------------------ strategies

STRATEGIES == {"last", "list"}

\* Faulty variant: begin keeps a value the target already carries.
LastValueStrategy_begin_keep(target) == target

\* Faulty variant: begin keeps a list the target already carries (setdefault).
ListValuesStrategy_begin_setdefault(target) ==
    IF HasKey(target, PROP) /\ "list" \in DOMAIN target[PROP]
    THEN target
    ELSE Element_setitem(target, PROP, List(<<>>))

\* Faulty variant: begin replaces the whole property mapping.
ListValuesStrategy_begin_replace(target) ==
    [k \in {PROP} |-> List(<<>>)]

\* Strategy.begin / LastValueStrategy.begin / ListValuesStrategy.begin:
\* the target's property mapping after the hook.
LastValueStrategy_begin(target) ==
    IF HasKey(target, PROP) THEN Element_delitem(target, PROP) ELSE target

ListValuesStrategy_begin(target) ==
    Element_setitem(target, PROP, List(<<>>))

\* The intersection hooks: the property mappings of source and target after
\* the hook, and whether the hook raised KeyError.
Outcome(source, target, raised) ==
    [source |-> source, target |-> target, raised |-> raised]

\* Faulty variant: the hook takes the value out of the source (pop).
LastValueStrategy_intersection_pop(source, target) ==
    IF ~HasKey(source, PROP)
    THEN Outcome(source, target, TRUE)
    ELSE Outcome(Element_delitem(source, PROP),
                 Element_setitem(target, PROP, Element_getitem(source, PROP)),
                 FALSE)

\* Faulty variant: the hook does not append a value the list already holds.
ListValuesStrategy_intersection_unique(source, target) ==
    IF ~HasKey(source, PROP)
    THEN Outcome(source, target, TRUE)
    ELSE IF \E k \in 1..Len(target[PROP].list) :
                target[PROP].list[k] = source[PROP]
    THEN Outcome(source, target, FALSE)
    ELSE Outcome(source,
                 Element_setitem(target, PROP,
                     List(Append(target[PROP].list, source[PROP]))),
                 FALSE)

\* Faulty variant: the hook passes over a source without the property.
ListValuesStrategy_intersection_lenient(source, target) ==
    IF ~HasKey(source, PROP)
    THEN Outcome(source, target, FALSE)
    ELSE Outcome(source,
                 Element_setitem(target, PROP,
                     List(Append(target[PROP].list, source[PROP]))),
                 FALSE)

LastValueStrategy_intersection(source, target) ==
    IF ~HasKey(source, PROP)
    THEN Outcome(source, target, TRUE)
    ELSE Outcome(source,
                 Element_setitem(target, PROP, Element_getitem(source, PROP)),
                 FALSE)

ListValuesStrategy_intersection(source, target) ==
    IF ~HasKey(source, PROP)
    THEN Outcome(source, target, TRUE)
    ELSE Outcome(source,
                 Element_setitem(target, PROP,
                     List(Append(Element_getitem(target, PROP).list,
                                 Element_getitem(source, PROP)))),
                 FALSE)

\* Strategy.end: inherited by both strategies, does nothing.
Strategy_end(target) == target

strategy_begin(s, target) ==
    IF s = "last" THEN LastValueStrategy_begin(target)
    ELSE ListValuesStrategy_begin(target)

strategy_intersection(s, source, target) ==
    IF s = "last" THEN LastValueStrategy_intersection(source, target)
    ELSE ListValuesStrategy_intersection(source, target)

\* --------------------------------------------------------------- inputs

\* The features an input file may hold.
SourceFeatures ==
    { Feature(MultiPoint(<<P1>>), [zone |-> Str("north")]),
      Feature(MultiPoint(<<P1>>), [zone |-> Str("south"), name |-> Str("s")]),
      Feature(MultiPoint(<<P2>>), [zone |-> Str("north")]),
      Feature(MultiPoint(<<P1>>), [name |-> Str("s")]),
      Feature(Malformed, [zone |-> Str("north")]) }

TargetFeatures ==
    { Feature(MultiPoint(<<P1>>), NoProps),
      Feature(MultiPoint(<<P1>>), [zone |-> Str("old"), name |-> Str("t")]),
      Feature(MultiPoint(<<P1, P2>>), [name |-> Str("t")]),
      Feature(MultiPoint(<<P2>>), [zone |-> List(<<Str("old")>>)]),
      Feature(Malformed, [zone |-> Str("old")]) }

SeqsUpTo(S, n) == UNION { [1..k -> S] : k \in 0..n }

\* A file: readable JSON holding a feature collection, or not.
File(readable, features) == [readable |-> readable, features |-> features]

\* The output file: whether it exists, whether it holds a complete JSON
\* document, and the features of that document.
OutFile(exists, valid, features) ==
    [exists |-> exists, valid |-> valid, features |-> features]

SourceFiles ==
    { File(TRUE, f) : f \in SeqsUpTo(SourceFeatures, MaxSources) }
        \cup { File(FALSE, <<>>) }
TargetFiles ==
    { File(TRUE, f) : f \in SeqsUpTo(TargetFeatures, MaxTargets) }
        \cup { File(FALSE, <<>>) }

\* ---------------------------------------------------------------- state

VARIABLES
    sourceFile,      \* the file args.source_filename names
    targetFile,      \* the file args.target_filename names
    strategy,        \* args.strategy
    progress,        \* whether assign is given a progress callback
    source_geojson,  \* the features of the loaded source collection
    target_geojson,  \* the features of the loaded target collection
    sources,         \* assign's sources: the shape of each source element
    targets,         \* assign's targets: the shape of each target element
    i,               \* targets taken by the outer loop so far
    j,               \* sources taken by the inner loop for target i
    pc,              \* the statement the program is at
    err,             \* the exception that ended the program, or "none"
    calls,           \* the callback and hook calls of the current assign
    run,             \* the number of the current call of assign
    results,         \* target_geojson at each return of assign
    output           \* the file args.output_filename names

vars == <<sourceFile, targetFile, strategy, progress, source_geojson,
          target_geojson, sources, targets, i, j, pc, err, calls, run,
          results, output>>

inputs == <<sourceFile, targetFile, strategy, progress>>

Init ==
    /\ sourceFile \in SourceFiles
    /\ targetFile \in TargetFiles
    /\ strategy \in STRATEGIES
    /\ progress \in BOOLEAN   \* main passes one; assign's default is None
    /\ source_geojson = <<>>
    /\ target_geojson = <<>>
    /\ sources = <<>>
    /\ targets = <<>>
    /\ i = 0
    /\ j = 0
    /\ pc = "load_source"
    /\ err = "none"
    /\ calls = <<>>
    /\ run = 1
    /\ results = <<>>
    /\ output = OutFile(FALSE, FALSE, <<>>)

\* An uncaught exception ends the program.
Raise(e) == pc' = "failed" /\ err' = e

\* main: source_geojson = load_json(args.source_filename)
LoadSource ==
    /\ pc = "load_source"
    /\ IF sourceFile.readable
       THEN /\ source_geojson' = sourceFile.features
            /\ pc' = "load_target"
            /\ UNCHANGED err
       ELSE /\ Raise("load")
            /\ UNCHANGED source_geojson
    /\ UNCHANGED <<inputs, target_geojson, sources, targets, i, j, calls,
                   run, results, output>>

\* main: target_geojson = load_json(args.target_filename)
LoadTarget ==
    /\ pc = "load_target"
    /\ IF targetFile.readable
       THEN /\ target_geojson' = targetFile.features
            /\ pc' = "convert_sources"
            /\ UNCHANGED err
       ELSE /\ Raise("load")
            /\ UNCHANGED target_geojson
    /\ UNCHANGED <<inputs, source_geojson, sources, targets, i, j, calls,
                   run, results, output>>

\* _geojson_to_elements: [Element(f) for f in feature_collection['features']]
\* Faulty variant: the geometries are not converted when the elements are made.
Convertible_lazy(features) == TRUE

Convertible(features) ==
    \A k \in 1..Len(features) : CanConvert(features[k].geometry)

geojson_to_elements(features) ==
    [k \in 1..Len(features) |-> asShape(features[k].geometry)]

\* assign: sources = geojson_to_elements(source_geojson)
ConvertSources ==
    /\ pc = "convert_sources"
    /\ IF Convertible(source_geojson)
       THEN /\ sources' = geojson_to_elements(source_geojson)
            /\ pc' = "convert_targets"
            /\ UNCHANGED err
       ELSE /\ Raise("geometry")
            /\ UNCHANGED sources
    /\ UNCHANGED <<inputs, source_geojson, target_geojson, targets, i, j,
                   calls, run, results, output>>

\* assign: targets = geojson_to_elements(target_geojson)
ConvertTargets ==
    /\ pc = "convert_targets"
    /\ IF Convertible(target_geojson)
       THEN /\ targets' = geojson_to_elements(target_geojson)
            /\ pc' = "for_target"
            /\ i' = 0
            /\ UNCHANGED err
       ELSE /\ Raise("geometry")
            /\ UNCHANGED <<targets, i>>
    /\ UNCHANGED <<inputs, source_geojson, target_geojson, sources, j,
                   calls, run, results, output>>

\* The property mapping of feature k of a collection replaced by props.
WithProperties(features, k, props) ==
    [features EXCEPT ![k] = Feature(@.geometry, props)]

\* Faulty variant: the callback is given the number of the target, from 1.
ProgressCall_from1(done, total) == <<"progress", done + 1, total>>

\* assign: progress(i, len(targets)), as the call is logged
ProgressCall(done, total) == <<"progress", done, total>>

\* assign: for i, target in enumerate(targets):
\*             if progress: progress(i, len(targets))
\* and the return of assign once the targets are exhausted.  The callback
\* is the caller's code: it returns or raises.
ForTarget ==
    /\ pc = "for_target"
    /\ \/ /\ i = Len(targets)
          /\ pc' = "returned"
          /\ results' = Append(results, target_geojson)
          /\ UNCHANGED <<i, calls, err>>
       \/ /\ i < Len(targets)
          /\ ~progress
          /\ i' = i + 1
          /\ pc' = "begin"
          /\ UNCHANGED <<calls, err, results>>
       \/ /\ i < Len(targets)
          /\ progress
          /\ calls' = Append(calls, ProgressCall(i, Len(targets)))
          /\ i' = i + 1
          /\ pc' = "begin"
          /\ UNCHANGED <<err, results>>
       \/ /\ i < Len(targets)
          /\ progress
          /\ calls' = Append(calls, ProgressCall(i, Len(targets)))
          /\ Raise("callback")
          /\ UNCHANGED <<i, results>>
    /\ UNCHANGED <<inputs, source_geojson, target_geojson, sources, targets,
                   j, run, output>>

\* assign: strategy.begin(target)
Begin ==
    /\ pc = "begin"
    /\ target_geojson' =
           WithProperties(target_geojson, i,
               strategy_begin(strategy, target_geojson[i].properties))
    /\ calls' = Append(calls, <<"begin", i, 0>>)
    /\ j' = 0
    /\ pc' = "for_source"
    /\ UNCHANGED <<inputs, source_geojson, sources, targets, i, err, run,
                   results, output>>

\* assign: for source in sources:
\*             intersection = target.intersection(source)
\*             if intersection.is_empty: continue
\*             strategy.intersection(source, target, intersection)
ForSource ==
    /\ pc = "for_source"
    /\ j < Len(sources)
    /\ j' = j + 1
    /\ LET intersection == Element_intersection(targets[i], sources[j + 1])
           hook == strategy_intersection(strategy,
                       source_geojson[j + 1].properties,
                       target_geojson[i].properties)
       IN  \/ /\ is_empty(intersection)
              /\ UNCHANGED <<source_geojson, target_geojson, calls, pc, err>>
           \/ /\ ~is_empty(intersection)
              /\ calls' = Append(calls, <<"intersection", i, j + 1>>)
              /\ source_geojson' =
                     WithProperties(source_geojson, j + 1, hook.source)
              /\ target_geojson' =
                     WithProperties(target_geojson, i, hook.target)
              /\ IF hook.raised
                 THEN Raise("KeyError")
                 ELSE UNCHANGED <<pc, err>>
    /\ UNCHANGED <<inputs, sources, targets, i, run, results, output>>

\* assign: strategy.end(target), after the last source
End ==
    /\ pc = "for_source"
    /\ j = Len(sources)
    /\ target_geojson' =
           WithProperties(target_geojson, i,
               Strategy_end(target_geojson[i].properties))
    /\ calls' = Append(calls, <<"end", i, 0>>)
    /\ pc' = "for_target"
    /\ UNCHANGED <<inputs, source_geojson, sources, targets, i, j, err, run,
                   results, output>>

\* main: print(), after assign returned.  Writing to stdout may raise.
PrintNewline ==
    /\ pc = "returned"
    /\ \/ /\ pc' = "save"
          /\ UNCHANGED err
       \/ Raise("print")
    /\ UNCHANGED <<inputs, source_geojson, target_geojson, sources, targets,
                   i, j, calls, run, results, output>>

\* Faulty variant: the output file is opened whether assign returned or
\* raised (a save in a finally clause).
OpenOutput_finally ==
    /\ \/ pc = "save"
       \/ pc = "failed" /\ err \in {"geometry", "KeyError", "callback"}
    /\ ~output.exists
    /\ output' = OutFile(TRUE, FALSE, <<>>)
    /\ pc' = IF pc = "save" THEN "dump" ELSE pc
    /\ UNCHANGED <<inputs, source_geojson, target_geojson, sources, targets,
                   i, j, err, calls, run, results>>

\* save_json: open(filename, 'w', encoding='utf-8') creates or truncates the
\* file, or raises and leaves no file.
OpenOutput ==
    /\ pc = "save"
    /\ \/ /\ output' = OutFile(TRUE, FALSE, <<>>)
          /\ pc' = "dump"
          /\ UNCHANGED err
       \/ /\ Raise("open")
          /\ UNCHANGED output
    /\ UNCHANGED <<inputs, source_geojson, target_geojson, sources, targets,
                   i, j, calls, run, results>>

\* save_json: json.dump(data, f) writes the whole collection, or fails
\* partway and leaves a truncated file that is not valid JSON.
Dump ==
    /\ pc = "dump"
    /\ \/ /\ output' = OutFile(TRUE, TRUE, target_geojson)
          /\ pc' = "exit"
          /\ UNCHANGED err
       \/ /\ Raise("write")
          /\ UNCHANGED output
    /\ UNCHANGED <<inputs, source_geojson, target_geojson, sources, targets,
                   i, j, calls, run, results>>

\* A caller of the module calls assign again with the same collections and
\* the same strategy.
Rerun ==
    /\ pc = "returned"
    /\ run < MaxRuns
    /\ run' = run + 1
    /\ calls' = <<>>
    /\ i' = 0
    /\ j' = 0
    /\ pc' = "convert_sources"
    /\ UNCHANGED <<inputs, source_geojson, target_geojson, sources, targets,
                   err, results, output>>

Next ==
    \/ LoadSource
    \/ LoadTarget
    \/ ConvertSources
    \/ ConvertTargets
    \/ ForTarget
    \/ Begin
    \/ ForSource
    \/ End
    \/ PrintNewline
    \/ OpenOutput
    \/ Dump

Spec == Init /\ [][Next]_vars

NextRerun == Next \/ Rerun

SpecRerun == Init /\ [][NextRerun]_vars

\* ------------------------------------------------------------ properties
\* What the claims speak of, computed from the input files alone.

srcs0 == sourceFile.features
tgts0 == targetFile.features

\* assign has returned: main is at or past print(), or failed there.
Completed ==
    \/ pc \in {"returned", "save", "dump", "exit"}
    \/ pc = "failed" /\ err \in {"print", "open", "write"}

\* Source s and target t have a non-empty intersection.
Intersects(t, s) ==
    \E a \in 1..Len(tgts0[t].geometry.coordinates) :
        \E b \in 1..Len(srcs0[s].geometry.coordinates) :
            tgts0[t].geometry.coordinates[a] = srcs0[s].geometry.coordinates[b]

\* The sources among the first n that intersect target t, in collection order.
RECURSIVE MatchingUpTo(_, _)
MatchingUpTo(t, n) ==
    IF n = 0 THEN <<>>
    ELSE IF Intersects(t, n) THEN Append(MatchingUpTo(t, n - 1), n)
         ELSE MatchingUpTo(t, n - 1)

Matching(t) == MatchingUpTo(t, Len(srcs0))

\* The values of the bound property on a sequence of sources.
ValuesOf(m) == [k \in 1..Len(m) |-> srcs0[m[k]].properties[PROP]]

IsList(value) == "list" \in DOMAIN value

\* C1: after a completed run with LastValueStrategy every target that some
\* source intersects has the bound property equal to its value on the last
\* intersecting source in collection order, and every target that no source
\* intersects has no bound property, whatever it carried before the run.
C1_LastValueResult ==
    (Completed /\ strategy = "last") =>
        /\ Len(target_geojson) = Len(tgts0)
        /\ \A t \in 1..Len(tgts0) :
              LET m == Matching(t)
                  props == target_geojson[t].properties
              IN  IF m # <<>>
                  THEN /\ HasKey(props, PROP)
                       /\ props[PROP] = srcs0[m[Len(m)]].properties[PROP]
                  ELSE ~HasKey(props, PROP)

\* A completed last-value run in which one target is intersected by two
\* sources of different values and another, which carried the property, by
\* none.
C1_Witness ==
    /\ Completed /\ strategy = "last"
    /\ \E t \in 1..Len(tgts0) :
          /\ Len(Matching(t)) >= 2
          /\ ValuesOf(Matching(t))[1] # ValuesOf(Matching(t))[2]
          /\ HasKey(tgts0[t].properties, PROP)
    /\ \E t \in 1..Len(tgts0) :
          /\ Matching(t) = <<>>
          /\ HasKey(tgts0[t].properties, PROP)

\* C2: after a completed run with ListValuesStrategy the bound property of
\* every target is the list of the values of exactly the intersecting
\* sources, in collection order, duplicates kept; the empty list when no
\* source intersects it, whatever it carried before the run.
C2_ListValuesResult ==
    (Completed /\ strategy = "list") =>
        /\ Len(target_geojson) = Len(tgts0)
        /\ \A t \in 1..Len(tgts0) :
              LET props == target_geojson[t].properties
              IN  /\ HasKey(props, PROP)
                  /\ props[PROP] = List(ValuesOf(Matching(t)))

\* A completed list run in which one target collected two values and
\* another, which carried the property, is intersected by no source.
C2_Witness ==
    /\ Completed /\ strategy = "list"
    /\ \E t \in 1..Len(tgts0) :
          /\ Len(Matching(t)) >= 2
          /\ HasKey(tgts0[t].properties, PROP)
    /\ \E t \in 1..Len(tgts0) :
          /\ Matching(t) = <<>>
          /\ HasKey(tgts0[t].properties, PROP)

\* C3: in every state of any run, completed or aborted, the loaded source
\* collection equals the source collection as loaded: no step writes to or
\* deletes from a source feature.
C3_SourcesUnchanged ==
    (pc # "load_source" /\ sourceFile.readable) => source_geojson = srcs0

\* A run, of either strategy, past an intersection hook call.
C3_Witness ==
    /\ pc \in {"returned", "failed"}
    /\ \E k \in 1..Len(calls) : calls[k][1] = "intersection"
    /\ \E k \in 1..Len(srcs0) : HasKey(srcs0[k].properties, PROP)

\* C4: calling assign again with the same sources, the same strategy and
\* the targets as the previous call left them leaves every target as it was
\* after the previous call; a list of values does not grow.
C4_RerunIdempotent ==
    \A k \in 2..Len(results) : results[k] = results[k - 1]

\* A second call of assign, with ListValuesStrategy, has returned and a
\* target holds a list of two values.
C4_Witness ==
    /\ Len(results) >= 2
    /\ strategy = "list"
    /\ \E t \in 1..Len(tgts0) :
          Len(results[2][t].properties[PROP].list) >= 2

\* Two target collections differ at most in the bound property of their
\* features.
SameFrame(a, b) ==
    /\ Len(a) = Len(b)
    /\ \A t \in 1..Len(a) :
          /\ a[t].geometry = b[t].geometry
          /\ (DOMAIN a[t].properties) \ {PROP} = (DOMAIN b[t].properties) \ {PROP}
          /\ \A k \in (DOMAIN a[t].properties) \ {PROP} :
                a[t].properties[k] = b[t].properties[k]

\* C5: from loading on, and in the output file, the target collection
\* differs from the input at most in the bound property: the number and
\* order of the features, their geometries and their other properties stay.
C5_TargetFrame ==
    /\ (pc \notin {"load_source", "load_target"} /\ err # "load")
           => SameFrame(target_geojson, tgts0)
    /\ output.valid => SameFrame(output.features, tgts0)

\* The output was written and a target that carries another property got
\* the bound one set.
C5_Witness ==
    /\ output.valid
    /\ Len(tgts0) >= 2
    /\ tgts0[1] # tgts0[2]
    /\ \E t \in 1..Len(tgts0) :
          /\ HasKey(tgts0[t].properties, OtherProp)
          /\ ~HasKey(tgts0[t].properties, PROP)
          /\ HasKey(output.features[t].properties, PROP)

\* The hook calls among the logged calls.
HookCalls(c) == SelectSeq(c, LAMBDA e : e[1] # "progress")

\* The hook calls for target t: begin, one intersection for each
\* intersecting source in collection order, end.
HooksFor(t) ==
    <<  <<"begin", t, 0>>  >>
        \o [k \in 1..Len(Matching(t)) |-> <<"intersection", t, Matching(t)[k]>>]
        \o <<  <<"end", t, 0>>  >>

\* The calls of a completed run over the first n targets, target by target.
RECURSIVE ExpectedCalls(_, _)
ExpectedCalls(n, withProgress) ==
    IF n = 0 THEN <<>>
    ELSE ExpectedCalls(n - 1, withProgress)
             \o (IF withProgress
                 THEN <<  <<"progress", n - 1, Len(tgts0)>>  >>
                 ELSE <<>>)
             \o HooksFor(n)

IsPrefix(a, b) == Len(a) <= Len(b) /\ a = SubSeq(b, 1, Len(a))

\* C6: the hook calls of a completed run are, target by target in
\* collection order, one begin, one intersection for each source with a
\* non-empty intersection and for no other, in collection order, and one
\* end; during a run the calls made so far are a beginning of that sequence.
C6_HookOrder ==
    /\ IsPrefix(HookCalls(calls), ExpectedCalls(Len(tgts0), FALSE))
    /\ Completed => HookCalls(calls) = ExpectedCalls(Len(tgts0), FALSE)

\* A completed run over two targets in which a source was skipped for one
\* target and passed to the hook for the other.
C6_Witness ==
    /\ Completed
    /\ Len(tgts0) = 2
    /\ \E s \in 1..Len(srcs0) : Intersects(1, s) /\ ~Intersects(2, s)
    /\ \E s \in 1..Len(srcs0) : Intersects(2, s)

\* The result of assign as a function of the collections and the strategy.
Put(f, key, value) ==
    [k \in (DOMAIN f) \cup {key} |-> IF k = key THEN value ELSE f[k]]
Drop(f, key) == [k \in (DOMAIN f) \ {key} |-> f[k]]

\* The properties of target t once the sources m, which all carry the bound
\* property, have been assigned to it.
ResolvedFrom(t, m) ==
    LET old == tgts0[t].properties
    IN  IF strategy = "list" THEN Put(old, PROP, List(ValuesOf(m)))
        ELSE IF m = <<>> THEN Drop(old, PROP)
        ELSE Put(old, PROP, ValuesOf(m)[Len(m)])

ExpectedProperties(t) == ResolvedFrom(t, Matching(t))

ExpectedTargets ==
    [t \in 1..Len(tgts0) |-> Feature(tgts0[t].geometry, ExpectedProperties(t))]

\* C7: in a completed run with a callback the calls are, for the k-th of n
\* targets (k from 0), progress(k, n), then the hooks of that target: n
\* callback calls, each after the end of the target before and before the
\* begin of its own; without a callback there is no callback call; and the
\* result is the same function of the inputs in both cases.
C7_Progress ==
    Completed =>
        /\ calls = ExpectedCalls(Len(tgts0), progress)
        /\ target_geojson = ExpectedTargets

\* A completed run with a callback over two targets.
C7_Witness ==
    /\ Completed
    /\ progress
    /\ Len(tgts0) = 2
    /\ \E k \in 1..Len(calls) : calls[k] = <<"progress", 1, 2>>

\* Source s intersects target t and lacks the bound property.
Missing(t, s) == Intersects(t, s) /\ ~HasKey(srcs0[s].properties, PROP)

Pairs == (1..Len(tgts0)) \X (1..Len(srcs0))

\* The pair (t, s) is reached before the pair (u, v) by the two loops.
Earlier(t, s, u, v) == t < u \/ (t = u /\ s < v)

\* The first pair, in iteration order, whose source lacks the property.
FirstMissing(t, s) ==
    /\ Missing(t, s)
    /\ \A q \in Pairs : Missing(q[1], q[2]) => ~Earlier(q[1], q[2], t, s)

\* The calls up to the intersection hook for (t, s), which raises.
CallsUpTo(t, s) ==
    ExpectedCalls(t - 1, progress)
        \o (IF progress THEN <<  <<"progress", t - 1, Len(tgts0)>>  >> ELSE <<>>)
        \o <<  <<"begin", t, 0>>  >>
        \o [k \in 1..Len(MatchingUpTo(t, s)) |->
                <<"intersection", t, MatchingUpTo(t, s)[k]>>]

\* C8: assign fails with KeyError exactly at the first pair, in iteration
\* order, of a target and an intersecting source that lacks the bound
\* property: the failing intersection hook is the last call, no step follows
\* the failure, the targets before hold their resolved values, the targets
\* after are as in the input, and the target of the pair is as begin and the
\* intersection hooks before the failing one left it.  A run in which such a
\* pair exists does not complete; a run in which none exists, though a source
\* lacks the property, does not fail with KeyError.
C8_MissingProperty ==
    /\ err = "KeyError" =>
          \E q \in Pairs :
              LET t == q[1]
                  s == q[2]
              IN  /\ FirstMissing(t, s)
                  /\ pc = "failed"
                  /\ calls = CallsUpTo(t, s)
                  /\ \A u \in 1..(t - 1) : target_geojson[u] = ExpectedTargets[u]
                  /\ \A u \in (t + 1)..Len(tgts0) : target_geojson[u] = tgts0[u]
                  /\ target_geojson[t] =
                         Feature(tgts0[t].geometry,
                                 ResolvedFrom(t, MatchingUpTo(t, s - 1)))
    /\ pc = "failed" => ~ENABLED Next
    /\ Completed => \A q \in Pairs : ~Missing(q[1], q[2])

\* The run failed at the second source for the second target: the first
\* target is resolved and the second holds the value of the first source.
C8_Witness ==
    /\ err = "KeyError"
    /\ i = 2 /\ j = 2
    /\ Intersects(2, 1)
    /\ Matching(1) # <<>>
    /\ target_geojson[1] # tgts0[1]
    /\ target_geojson[2] # tgts0[2]

\* Some feature of either collection has a geometry asShape rejects.
HasMalformed ==
    \/ \E k \in 1..Len(srcs0) : ~CanConvert(srcs0[k].geometry)
    \/ \E k \in 1..Len(tgts0) : ~CanConvert(tgts0[k].geometry)

\* C9: when a feature of either collection has a geometry that cannot be
\* converted, assign fails in the conversion: the loops are never entered,
\* no callback or hook is called, and the targets are as loaded when the
\* error surfaces.
C9_MalformedGeometry ==
    /\ (HasMalformed /\ sourceFile.readable /\ targetFile.readable) =>
          /\ calls = <<>>
          /\ pc \in {"load_source", "load_target", "convert_sources",
                     "convert_targets", "failed"}
          /\ pc \notin {"load_source", "load_target"} => target_geojson = tgts0
          /\ pc = "failed" => err = "geometry"
    /\ err = "geometry" =>
          /\ HasMalformed
          /\ calls = <<>>
          /\ target_geojson = tgts0
          /\ ~output.exists

\* The conversion failed at the last target, after every source and the
\* first target, which a source intersects, had been converted.
C9_Witness ==
    /\ err = "geometry"
    /\ progress
    /\ Len(tgts0) = 2 /\ Len(srcs0) >= 1
    /\ \A k \in 1..Len(srcs0) : CanConvert(srcs0[k].geometry)
    /\ CanConvert(tgts0[1].geometry)
    /\ ~CanConvert(tgts0[2].geometry)
    /\ Intersects(1, 1)
    /\ HasKey(tgts0[1].properties, PROP)

\* C10: save_json is reached only after assign has returned: an output file
\* exists only when assign returned and main got past print(), a complete
\* output holds the target collection as assign left it, and a run that
\* failed in loading, in the conversion, in the callback or in a hook never
\* reached save_json and has no output file.
C10_OutputAfterReturn ==
    /\ pc \in {"save", "dump"} => (results # <<>> /\ err = "none")
    /\ output.exists =>
          /\ results # <<>>
          /\ pc \in {"dump", "exit"} \/ (pc = "failed" /\ err = "write")
    /\ output.valid =>
          /\ output.exists
          /\ pc = "exit"
          /\ err = "none"
          /\ output.features = results[Len(results)]
    /\ (pc = "failed" /\ err \in {"load", "geometry", "KeyError", "callback"}) =>
          /\ ~output.exists
          /\ ~ENABLED OpenOutput

\* A run that failed in a hook after it had changed a target.
C10_Witness ==
    /\ pc = "failed"
    /\ err = "KeyError"
    /\ target_geojson # tgts0
    /\ ~output.exists

\* The output file after a run that ended in an exception is absent or
\* complete.  This is not a property of the program: json.dump failing
\* partway (the second branch of Dump) leaves a truncated file.
NoPartialOutput ==
    pc = "failed" => (~output.exists \/ output.valid)

====
